---- MODULE Spec2Model ----
(***************************************************************************)
(* The online-boutique frontend (examples/online_boutique/frontend/        *)
(* frontend.go): construction of the Server by NewServer, its life cycle   *)
(* in Run, and the composed HTTP handler applied to requests.              *)
(*                                                                         *)
(* Strings whose letter case matters (ENV_PLATFORM and the label derived   *)
(* from it) are sequences of one-character strings, so that                *)
(* strings.ToLower is a real conversion.  A URL path is the sequence of    *)
(* its segments: "/" is <<>>, "/cart/empty" is <<"cart","empty">>,         *)
(* "/static/" is <<"static","">>.                                          *)
(***************************************************************************)
EXTENDS Integers, Sequences, FiniteSets, TLC

----------------------------------------------------------------------------
(* Bounds of the model *)

\* number of requests served over the life of the listener
MaxReqs == 2
\* largest number of addresses a successful metadata lookup returns
MaxAddrs == 1

----------------------------------------------------------------------------
(* Strings *)

UpperLetters == <<"A","B","C","D","E","F","G","H","I","J","K","L","M",
                  "N","O","P","Q","R","S","T","U","V","W","X","Y","Z">>
LowerLetters == <<"a","b","c","d","e","f","g","h","i","j","k","l","m",
                  "n","o","p","q","r","s","t","u","v","w","x","y","z">>

ToLowerChar(c) ==
    IF \E i \in DOMAIN UpperLetters : UpperLetters[i] = c
    THEN LowerLetters[CHOOSE i \in DOMAIN UpperLetters : UpperLetters[i] = c]
    ELSE c

\* strings.ToLower
ToLower(s) == [i \in DOMAIN s |-> ToLowerChar(s[i])]

\* every spelling of s that differs from it in letter case only
Casings(s) ==
    { t \in [DOMAIN s -> {s[i] : i \in DOMAIN s} \cup
                         {c \in {UpperLetters[j] : j \in DOMAIN UpperLetters} :
                              \E i \in DOMAIN s : ToLowerChar(c) = s[i]}] :
        ToLower(t) = s }

StrLocal == <<"l","o","c","a","l">>
StrGcp   == <<"g","c","p">>
StrEmpty == <<>>

\* values the process environment can hold for ENV_PLATFORM (unset reads as "")
EnvValues ==
    {StrEmpty} \cup Casings(StrGcp) \cup Casings(StrLocal)
        \cup { <<"a","w","s">>, <<"g","c">>, <<"g","c","p","x">>,
               <<" ","g","c","p">>, <<"G","C","P","2">> }

----------------------------------------------------------------------------
(* Constants of the package *)

cookieMaxAge == 60 * 60 * 48
cookiePrefix == "shop_"
cookieSessionID == "shop_session-id"
cookieCurrency == "shop_currency"

validEnvs == <<StrLocal, StrGcp>>

\* stringinSlice(slice, val): val is an element of slice
stringinSlice(slice, val) == \E i \in DOMAIN slice : slice[i] = val

----------------------------------------------------------------------------
(* Platform details *)

\* platformDetails.setPlatformDetails
setPlatformDetails(e) ==
    IF e = StrGcp
    THEN [css |-> "gcp-platform", provider |-> "Google Cloud"]
    ELSE [css |-> "local", provider |-> "local"]

\* the zero value platformDetails{}
ZeroPlatform == [css |-> "", provider |-> ""]

\* ValidatedEnv with the membership test left out
ValidatedEnvEmptyOnly(v) ==
    IF v = StrEmpty THEN StrLocal ELSE v

\* NewServer: the value of env after the validity check on ENV_PLATFORM
ValidatedEnv(v) ==
    IF v = StrEmpty \/ ~stringinSlice(validEnvs, v) THEN StrLocal ELSE v

\* AutodetectedEnv asking for at least one address
AutodetectedEnvNonEmpty(e, lookupErr, nAddrs) ==
    IF lookupErr = "nil" /\ nAddrs > 0 THEN StrGcp ELSE e

\* NewServer: the value of env after the metadata lookup
\* (lookupErr is "nil" or an error, nAddrs is len(addrs))
AutodetectedEnv(e, lookupErr, nAddrs) ==
    IF lookupErr = "nil" /\ nAddrs >= 0 THEN StrGcp ELSE e

----------------------------------------------------------------------------
(* The Server and the state of its construction *)

\* the seven components NewServer asks weaver.Get for, in the order it asks
Services == <<"catalogService", "currencyService", "cartService",
              "recommendationService", "checkoutService", "shippingService",
              "adService">>

ServiceNames == {Services[i] : i \in DOMAIN Services}

NoErr == <<>>
Unread == <<"<unread>">>

\* names os.Hostname can report
Hostnames == {"frontend-0", "frontend-1"}

\* the zero value of the Server struct
ZeroServer ==
    [ root     |-> "nil",
      platform |-> ZeroPlatform,
      hostname |-> "",
      services |-> [n \in ServiceNames |-> "nil"],
      handler  |-> <<>> ]

VARIABLES
    pc,        \* position of the program: inside NewServer, returned, serving
    handles,   \* NewServer's locals catalogService .. adService
    envRaw,    \* what os.Getenv("ENV_PLATFORM") returned
    env,       \* NewServer's local env
    lookup,    \* outcome of net.LookupHost: [err, n]
    label,     \* the argument handed to setPlatformDetails
    platform,  \* NewServer's local platform
    hostErr,   \* outcome of os.Hostname
    hostname,  \* NewServer's local hostname
    err,       \* NewServer's local err
    s,         \* the Server struct
    r,         \* the mux router: its routes, in registration order
    ret,       \* what NewServer returned: [server, err]
    lis,       \* the listener Run acquired
    runErr,    \* what Run returned
    last,      \* the request served last, with its response and event trace
    metrics,   \* requests counted by weaver.InstrumentHandler, per label
    served,    \* requests served so far
    minted     \* session identifiers generated so far

frame == <<handles, envRaw, env, lookup, label, platform, hostErr, hostname, err>>
reqs == <<last, metrics, served, minted>>
vars == <<pc, frame, s, r, ret, lis, runErr, reqs>>

NoLookup == [err |-> "not called", n |-> 0]
NoReturn == [server |-> "none", err |-> NoErr]
NoRequest == [seen |-> FALSE]

\* the locals of NewServer before its first statement
FrameInit ==
    /\ handles = [n \in ServiceNames |-> "nil"]
    /\ envRaw = Unread
    /\ env = StrEmpty
    /\ lookup = NoLookup
    /\ label = Unread
    /\ platform = ZeroPlatform
    /\ hostErr = "not called"
    /\ hostname = ""
    /\ err = NoErr

----------------------------------------------------------------------------
(* The route table *)

AnyMethod == {}

\* r.Handle(path, h) / r.HandleFunc(path, f): a route matching the whole path,
\* with no method matcher yet
Handle(path, lbl, fn) ==
    [path |-> path, prefix |-> FALSE, methods |-> AnyMethod,
     label |-> lbl, handler |-> fn]

\* weaver.InstrumentHandler wraps the handler under the label; a handler
\* registered directly carries no label
Uninstrumented == ""

\* the helper handleInstrumented of NewServer
handleInstrumented(path, lbl, fn) == Handle(path, lbl, fn)

\* Route.Methods
Methods(route, ms) == [route EXCEPT !.methods = ms]

\* r.PathPrefix(tpl).Handler(h)
PathPrefix(path, lbl, fn) ==
    [path |-> path, prefix |-> TRUE, methods |-> AnyMethod,
     label |-> lbl, handler |-> fn]

\* Routes with /healthz registered through handleInstrumented
RoutesHealthzInstrumented ==
    << Methods(handleInstrumented(<<>>, "home", "homeHandler"), {"GET", "HEAD"}),
       Methods(handleInstrumented(<<"product", "{id}">>, "product", "productHandler"),
               {"GET", "HEAD"}),
       Methods(handleInstrumented(<<"cart">>, "cart_view", "viewCartHandler"),
               {"GET", "HEAD"}),
       Methods(handleInstrumented(<<"cart">>, "cart_add", "addToCartHandler"), {"POST"}),
       Methods(handleInstrumented(<<"cart", "empty">>, "cart_empty", "emptyCartHandler"),
               {"POST"}),
       Methods(handleInstrumented(<<"setCurrency">>, "setcurrency", "setCurrencyHandler"),
               {"POST"}),
       Methods(handleInstrumented(<<"logout">>, "logout", "logoutHandler"), {"GET"}),
       Methods(handleInstrumented(<<"cart", "checkout">>, "cart_checkout",
                                  "placeOrderHandler"), {"POST"}),
       PathPrefix(<<"static">>, "static", "fileServer"),
       handleInstrumented(<<"robots.txt">>, "robots", "robotsFunc"),
       handleInstrumented(<<"healthz">>, "healthz", "healthzFunc") >>

\* Routes with /robots.txt restricted to GET and HEAD
RoutesRobotsGetHead ==
    << Methods(handleInstrumented(<<>>, "home", "homeHandler"), {"GET", "HEAD"}),
       Methods(handleInstrumented(<<"product", "{id}">>, "product", "productHandler"),
               {"GET", "HEAD"}),
       Methods(handleInstrumented(<<"cart">>, "cart_view", "viewCartHandler"),
               {"GET", "HEAD"}),
       Methods(handleInstrumented(<<"cart">>, "cart_add", "addToCartHandler"), {"POST"}),
       Methods(handleInstrumented(<<"cart", "empty">>, "cart_empty", "emptyCartHandler"),
               {"POST"}),
       Methods(handleInstrumented(<<"setCurrency">>, "setcurrency", "setCurrencyHandler"),
               {"POST"}),
       Methods(handleInstrumented(<<"logout">>, "logout", "logoutHandler"), {"GET"}),
       Methods(handleInstrumented(<<"cart", "checkout">>, "cart_checkout",
                                  "placeOrderHandler"), {"POST"}),
       PathPrefix(<<"static">>, "static", "fileServer"),
       Methods(handleInstrumented(<<"robots.txt">>, "robots", "robotsFunc"),
               {"GET", "HEAD"}),
       Handle(<<"healthz">>, Uninstrumented, "healthzFunc") >>

\* the registrations of NewServer, in order
Routes ==
    << Methods(handleInstrumented(<<>>, "home", "homeHandler"), {"GET", "HEAD"}),
       Methods(handleInstrumented(<<"product", "{id}">>, "product", "productHandler"),
               {"GET", "HEAD"}),
       Methods(handleInstrumented(<<"cart">>, "cart_view", "viewCartHandler"),
               {"GET", "HEAD"}),
       Methods(handleInstrumented(<<"cart">>, "cart_add", "addToCartHandler"), {"POST"}),
       Methods(handleInstrumented(<<"cart", "empty">>, "cart_empty", "emptyCartHandler"),
               {"POST"}),
       Methods(handleInstrumented(<<"setCurrency">>, "setcurrency", "setCurrencyHandler"),
               {"POST"}),
       Methods(handleInstrumented(<<"logout">>, "logout", "logoutHandler"), {"GET"}),
       Methods(handleInstrumented(<<"cart", "checkout">>, "cart_checkout",
                                  "placeOrderHandler"), {"POST"}),
       PathPrefix(<<"static">>, "static", "fileServer"),
       handleInstrumented(<<"robots.txt">>, "robots", "robotsFunc"),
       Handle(<<"healthz">>, Uninstrumented, "healthzFunc") >>

\* one template segment against one path segment: {id} is [^/]+
SegMatch(tpl, seg) == IF tpl = "{id}" THEN seg # "" ELSE tpl = seg

\* the route's path matcher: the whole path, or (PathPrefix "/static/") the
\* template followed by a slash and anything
PathMatch(route, path) ==
    IF route.prefix
    THEN /\ Len(path) > Len(route.path)
         /\ \A i \in DOMAIN route.path : SegMatch(route.path[i], path[i])
    ELSE /\ Len(path) = Len(route.path)
         /\ \A i \in DOMAIN route.path : SegMatch(route.path[i], path[i])

MethodMatch(route, method) ==
    route.methods = AnyMethod \/ method \in route.methods

\* mux.Router.Match: the first route whose matchers all accept the request;
\* without one, 405 when some route failed on its method alone, else 404
Match(routes, method, path) ==
    LET full == {i \in DOMAIN routes :
                    PathMatch(routes[i], path) /\ MethodMatch(routes[i], method)}
        byPath == {i \in DOMAIN routes : PathMatch(routes[i], path)}
    IN  IF full # {}
        THEN [kind |-> "route", idx |-> CHOOSE i \in full : \A j \in full : i <= j]
        ELSE IF byPath # {}
             THEN [kind |-> "methodNotAllowed", idx |-> 0]
             ELSE [kind |-> "notFound", idx |-> 0]

----------------------------------------------------------------------------
(* The composed handler *)

\* a handler is the list of its layers, outermost first
Wrap(layer, h) == <<layer>> \o h

ensureSessionID(h) == Wrap("session", h)
newLogHandler(h) == Wrap("log", h)
otelhttpNewHandler(h) == Wrap("trace", h)

\* ComposedHandler without the session wrapper
ComposedHandlerNoSession ==
    otelhttpNewHandler(newLogHandler(<<"router">>))

\* ComposedHandler with the wrappers applied in the opposite order
ComposedHandlerReversed ==
    ensureSessionID(newLogHandler(otelhttpNewHandler(<<"router">>)))

\* NewServer: handler = r; then the three wrappers, in this order
ComposedHandler ==
    otelhttpNewHandler(newLogHandler(ensureSessionID(<<"router">>)))

NoSession == <<>>
\* the session identifier a returning visitor's cookie carries
KnownSession == <<"sid", 0>>
\* uuid.NewRandom: the k-th identifier generated
FreshSession(k) == <<"uuid", k>>

HTTPMethods == {"GET", "HEAD", "POST", "PUT"}

Paths ==
    { <<>>, <<"product", "OLJCESPC7Z">>, <<"product", "">>, <<"cart">>,
      <<"cart", "empty">>, <<"setCurrency">>, <<"logout">>,
      <<"cart", "checkout">>, <<"static", "a.txt">>, <<"static">>,
      <<"robots.txt">>, <<"healthz">>, <<"healthz", "x">>, <<"admin">> }

\* files of the embedded static/ tree
Assets == { <<"a.txt">> }

\* http.StripPrefix("/static/", ...): the path below the prefix
StripPrefix(path) == SubSeq(path, 2, Len(path))

\* what the matched route's own handler writes.  Page handlers answer 200, or
\* an error page when a downstream call fails (downstreamOK = FALSE).
RunHandler(route, req) ==
    CASE route.handler = "healthzFunc" ->
            [status |-> 200, body |-> "ok"]
      [] route.handler = "robotsFunc" ->
            [status |-> 200, body |-> "User-agent: *\nDisallow: /"]
      [] route.handler = "fileServer" ->
            IF StripPrefix(req.path) \in Assets
            THEN [status |-> 200, body |-> "<asset>"]
            ELSE [status |-> 404, body |-> "404 page not found"]
      [] OTHER ->
            IF req.downstreamOK
            THEN [status |-> 200, body |-> "<page>"]
            ELSE [status |-> 500, body |-> "<error page>"]

\* the base router: dispatch, through weaver.InstrumentHandler when the route
\* was registered with it
ServeRouter(routes, req, session) ==
    LET m == Match(routes, req.method, req.path)
    IN  IF m.kind = "route"
        THEN LET route == routes[m.idx]
                 out == RunHandler(route, req)
             IN  [ events |-> (IF route.label # Uninstrumented
                               THEN <<"instrument">> ELSE <<>>) \o <<"handler">>,
                   status |-> out.status,
                   body |-> out.body,
                   setCookies |-> <<>>,
                   route |-> m.idx,
                   label |-> route.label,
                   handlerSession |-> session ]
        ELSE [ events |-> <<"unrouted">>,
               status |-> IF m.kind = "methodNotAllowed" THEN 405 ELSE 404,
               body |-> "",
               setCookies |-> <<>>,
               route |-> 0,
               label |-> Uninstrumented,
               handlerSession |-> session ]

RECURSIVE ServeFrom(_, _, _, _, _, _)
\* ServeHTTP of the layer h[i]: what it does before calling the next layer,
\* the next layer, what it does after.  session is the identifier in the
\* request context so far, fresh the identifier to mint if one is needed.
ServeFrom(h, i, routes, req, session, fresh) ==
    IF h[i] = "router"
    THEN ServeRouter(routes, req, session)
    ELSE IF h[i] = "session"
    THEN LET sid == IF req.cookie = NoSession THEN fresh ELSE req.cookie
             in == ServeFrom(h, i + 1, routes, req, sid, fresh)
         IN  [in EXCEPT
                !.events = <<"session">> \o @,
                !.setCookies =
                    (IF req.cookie = NoSession
                     THEN << [name |-> cookieSessionID, value |-> sid,
                              maxAge |-> cookieMaxAge] >>
                     ELSE <<>>) \o @]
    ELSE IF h[i] = "log"
    THEN LET in == ServeFrom(h, i + 1, routes, req, session, fresh)
         IN  [in EXCEPT !.events = <<"log_start">> \o @ \o <<"log_record">>]
    ELSE LET in == ServeFrom(h, i + 1, routes, req, session, fresh)
         IN  [in EXCEPT !.events = <<"span_start">> \o @ \o <<"span_end">>]

\* the handler handed to http.Serve, applied to one request
ServeHTTP(h, routes, req, fresh) == ServeFrom(h, 1, routes, req, NoSession, fresh)

Labels == {Routes[i].label : i \in DOMAIN Routes} \ {Uninstrumented}

----------------------------------------------------------------------------
(* Initial state: the process has started and calls NewServer(root) *)

Init ==
    /\ pc = "get"
    /\ FrameInit
    /\ s = ZeroServer
    /\ r = <<>>
    /\ ret = NoReturn
    /\ lis = "nil"
    /\ runErr = NoErr
    /\ last = NoRequest
    /\ metrics = [l \in Labels |-> 0]
    /\ served = 0
    /\ minted = 0

----------------------------------------------------------------------------
(* NewServer *)

\* the service the next weaver.Get asks for
NextService ==
    CHOOSE i \in DOMAIN Services :
        /\ handles[Services[i]] = "nil"
        /\ \A j \in 1..(i - 1) : handles[Services[j]] # "nil"

\* GetService with the error check after the last weaver.Get left out
GetServiceUnchecked ==
    /\ pc = "get"
    /\ \E ok \in BOOLEAN :
        LET i == NextService
        IN  IF ok
            THEN /\ handles' = [handles EXCEPT ![Services[i]] = Services[i]]
                 /\ err' = NoErr
                 /\ pc' = IF i = Len(Services) THEN "env" ELSE "get"
                 /\ ret' = ret
            ELSE IF i = Len(Services)
            THEN /\ handles' = handles
                 /\ err' = <<"weaver.Get", Services[i]>>
                 /\ ret' = ret
                 /\ pc' = "env"
            ELSE /\ handles' = handles
                 /\ err' = <<"weaver.Get", Services[i]>>
                 /\ ret' = [server |-> "nil", err |-> <<"weaver.Get", Services[i]>>]
                 /\ pc' = "returned"
    /\ UNCHANGED <<envRaw, env, lookup, label, platform, hostErr, hostname,
                   s, r, lis, runErr, reqs>>

\* x, err := weaver.Get[T](root); if err != nil { return nil, err }
GetService ==
    /\ pc = "get"
    /\ \E ok \in BOOLEAN :
        LET i == NextService
        IN  IF ok
            THEN /\ handles' = [handles EXCEPT ![Services[i]] = Services[i]]
                 /\ err' = NoErr
                 /\ pc' = IF i = Len(Services) THEN "env" ELSE "get"
                 /\ ret' = ret
            ELSE /\ handles' = handles
                 /\ err' = <<"weaver.Get", Services[i]>>
                 /\ ret' = [server |-> "nil", err |-> <<"weaver.Get", Services[i]>>]
                 /\ pc' = "returned"
    /\ UNCHANGED <<envRaw, env, lookup, label, platform, hostErr, hostname,
                   s, r, lis, runErr, reqs>>

\* env = os.Getenv("ENV_PLATFORM"); fall back to "local" when empty or invalid
ReadEnv ==
    /\ pc = "env"
    /\ \E v \in EnvValues :
        /\ envRaw' = v
        /\ env' = ValidatedEnv(v)
    /\ pc' = "lookup"
    /\ UNCHANGED <<handles, lookup, label, platform, hostErr, hostname, err,
                   s, r, ret, lis, runErr, reqs>>

\* addrs, err := net.LookupHost("metadata.google.internal.")
LookupHost ==
    /\ pc = "lookup"
    /\ \E out \in {[err |-> "no such host", n |-> 0]}
                    \cup {[err |-> "nil", n |-> k] : k \in 0..MaxAddrs} :
        /\ lookup' = out
        /\ env' = AutodetectedEnv(env, out.err, out.n)
        /\ err' = IF out.err = "nil" THEN NoErr ELSE <<"net.LookupHost", out.err>>
    /\ pc' = "platform"
    /\ UNCHANGED <<handles, envRaw, label, platform, hostErr, hostname,
                   s, r, ret, lis, runErr, reqs>>

\* platform := platformDetails{}; platform.setPlatformDetails(strings.ToLower(env))
SetPlatform ==
    /\ pc = "platform"
    /\ label' = ToLower(env)
    /\ platform' = setPlatformDetails(ToLower(env))
    /\ pc' = "hostname"
    /\ UNCHANGED <<handles, envRaw, env, lookup, hostErr, hostname, err,
                   s, r, ret, lis, runErr, reqs>>

\* Hostname returning the error of os.Hostname instead of falling back
HostnameFatal ==
    /\ pc = "hostname"
    /\ \/ /\ \E h \in Hostnames :
                /\ hostErr' = "nil"
                /\ err' = NoErr
                /\ hostname' = h
          /\ pc' = "create"
          /\ ret' = ret
       \/ /\ hostErr' = "hostname: error"
          /\ err' = <<"os.Hostname", "error">>
          /\ hostname' = ""
          /\ ret' = [server |-> "nil", err |-> <<"os.Hostname", "error">>]
          /\ pc' = "returned"
    /\ UNCHANGED <<handles, envRaw, env, lookup, label, platform,
                   s, r, lis, runErr, reqs>>

\* hostname, err := os.Hostname(); "unknown" on error
Hostname ==
    /\ pc = "hostname"
    /\ \/ \E h \in Hostnames :
            /\ hostErr' = "nil"
            /\ err' = NoErr
            /\ hostname' = h
       \/ /\ hostErr' = "hostname: error"
          /\ err' = <<"os.Hostname", "error">>
          /\ hostname' = "unknown"
    /\ pc' = "create"
    /\ UNCHANGED <<handles, envRaw, env, lookup, label, platform,
                   s, r, ret, lis, runErr, reqs>>

\* s := &Server{...}: every field but handler
CreateServer ==
    /\ pc = "create"
    /\ s' = [ root     |-> "root",
              platform |-> platform,
              hostname |-> hostname,
              services |-> handles,
              handler  |-> <<>> ]
    /\ pc' = "static"
    /\ UNCHANGED <<frame, r, ret, lis, runErr, reqs>>

\* staticHTML, err := fs.Sub(fs.FS(staticFS), "static"); if err != nil { return nil, err }
MountStatic ==
    /\ pc = "static"
    /\ \/ /\ err' = NoErr
          /\ pc' = "routes"
          /\ ret' = ret
       \/ /\ err' = <<"fs.Sub", "static">>
          /\ ret' = [server |-> "nil", err |-> <<"fs.Sub", "static">>]
          /\ pc' = "returned"
    /\ UNCHANGED <<handles, envRaw, env, lookup, label, platform, hostErr,
                   hostname, s, r, lis, runErr, reqs>>

\* r := mux.NewRouter() and the registrations
BuildRoutes ==
    /\ pc = "routes"
    /\ r' = Routes
    /\ pc' = "compose"
    /\ UNCHANGED <<frame, s, ret, lis, runErr, reqs>>

\* handler = r, wrapped three times; s.handler = handler; return s, nil
SetHandler ==
    /\ pc = "compose"
    /\ s' = [s EXCEPT !.handler = ComposedHandler]
    /\ ret' = [server |-> "s", err |-> NoErr]
    /\ pc' = "returned"
    /\ UNCHANGED <<frame, r, lis, runErr, reqs>>

NewServer ==
    \/ GetService
    \/ ReadEnv
    \/ LookupHost
    \/ SetPlatform
    \/ Hostname
    \/ CreateServer
    \/ MountStatic
    \/ BuildRoutes
    \/ SetHandler

----------------------------------------------------------------------------
(* Server.Run *)

\* Run going on to http.Serve without looking at the error of Listener
RunIgnoringErr ==
    /\ pc = "returned"
    /\ ret.server = "s"
    /\ \/ /\ lis' = "boutique"
          /\ runErr' = runErr
       \/ /\ lis' = "nil"
          /\ runErr' = <<"Listener", "boutique">>
    /\ pc' = "serving"
    /\ handles' = [n \in ServiceNames |-> "nil"]
    /\ envRaw' = Unread
    /\ env' = StrEmpty
    /\ lookup' = NoLookup
    /\ label' = Unread
    /\ platform' = ZeroPlatform
    /\ hostErr' = "not called"
    /\ hostname' = ""
    /\ err' = NoErr
    /\ UNCHANGED <<s, r, ret, reqs>>

\* lis, err := s.root.Listener("boutique", ...); if err != nil { return err }
\* Run is a method of the Server NewServer returned; NewServer's locals are
\* gone by the time it is called.
Run ==
    /\ pc = "returned"
    /\ ret.server = "s"
    /\ \/ /\ lis' = "boutique"
          /\ pc' = "serving"
          /\ runErr' = runErr
       \/ /\ lis' = "nil"
          /\ pc' = "exited"
          /\ runErr' = <<"Listener", "boutique">>
    /\ handles' = [n \in ServiceNames |-> "nil"]
    /\ envRaw' = Unread
    /\ env' = StrEmpty
    /\ lookup' = NoLookup
    /\ label' = Unread
    /\ platform' = ZeroPlatform
    /\ hostErr' = "not called"
    /\ hostname' = ""
    /\ err' = NoErr
    /\ UNCHANGED <<s, r, ret, reqs>>

\* http.Serve(lis, s.handler): one request through s.handler
Serve ==
    /\ pc = "serving"
    /\ last = NoRequest
    /\ served < MaxReqs
    /\ \E method \in HTTPMethods, path \in Paths,
          cookie \in {NoSession, KnownSession}, ok \in BOOLEAN :
        LET req == [method |-> method, path |-> path, cookie |-> cookie,
                    downstreamOK |-> ok]
            resp == ServeHTTP(s.handler, r, req, FreshSession(minted + 1))
        IN  /\ last' = [seen |-> TRUE, req |-> req, resp |-> resp]
            /\ metrics' = IF resp.label # Uninstrumented
                          THEN [metrics EXCEPT ![resp.label] = @ + 1]
                          ELSE metrics
            /\ minted' = IF resp.setCookies # <<>> THEN minted + 1 ELSE minted
    /\ served' = served + 1
    /\ UNCHANGED <<pc, frame, s, r, ret, lis, runErr>>

\* the response is written and the request's goroutine ends
Finish ==
    /\ pc = "serving"
    /\ last # NoRequest
    /\ last' = NoRequest
    /\ UNCHANGED <<pc, frame, s, r, ret, lis, runErr, metrics, served, minted>>

\* http.Serve returns (the listener was closed): Run returns its error
ServeReturns ==
    /\ pc = "serving"
    /\ last = NoRequest
    /\ pc' = "exited"
    /\ runErr' = <<"http.Serve", "closed">>
    /\ UNCHANGED <<frame, s, r, ret, lis, reqs>>

Next ==
    \/ NewServer
    \/ Run
    \/ Serve
    \/ Finish
    \/ ServeReturns

Spec == Init /\ [][Next]_vars

----------------------------------------------------------------------------
(* Properties *)

GcpProfile == [css |-> "gcp-platform", provider |-> "Google Cloud"]
LocalProfile == [css |-> "local", provider |-> "local"]

\* NewServer has derived the platform and its locals are still in scope
PlatformSet == label # Unread

\* the derived profile, as NewServer's local and, once created, in the Server
ProfileIs(p) ==
    /\ platform = p
    /\ pc \in {"static", "routes", "compose"} => s.platform = p
    /\ ret.server = "s" => s.platform = p

\* C1: whenever the metadata lookup returns without error, for any number of
\* addresses (zero included) and any ENV_PLATFORM, the final label is "gcp"
\* and the profile is {gcp-platform, Google Cloud}.
C1_ProbeSuccessGivesGcp ==
    (PlatformSet /\ lookup.err = "nil")
        => (label = StrGcp /\ ProfileIs(GcpProfile))

\* ENV_PLATFORM=local, the lookup succeeded with no address, Server returned
C1_Witness ==
    /\ ret.server = "s"
    /\ envRaw = StrLocal
    /\ lookup = [err |-> "nil", n |-> 0]
    /\ s.platform = GcpProfile

\* C2: for ENV_PLATFORM empty or outside {"local", "gcp"}, with the lookup
\* failing, the label is "local" and the profile is {local, local}.
C2_InvalidEnvGivesLocal ==
    (PlatformSet /\ lookup.err = "no such host"
        /\ (envRaw = StrEmpty \/ envRaw \notin {StrLocal, StrGcp}))
        => (label = StrLocal /\ ProfileIs(LocalProfile))

\* ENV_PLATFORM=aws, the lookup failed, Server returned
C2_Witness ==
    /\ ret.server = "s"
    /\ envRaw = <<"a", "w", "s">>
    /\ lookup.err = "no such host"
    /\ s.platform = LocalProfile

\* C3: for ENV_PLATFORM equal to "gcp" in any letter casing, with the lookup
\* failing, the label is "gcp" and the profile is {gcp-platform, Google Cloud}.
C3_AnyCasingOfGcp ==
    (PlatformSet /\ lookup.err = "no such host" /\ ToLower(envRaw) = StrGcp)
        => (label = StrGcp /\ ProfileIs(GcpProfile))

\* C4: NewServer is all-or-nothing.  A failed weaver.Get, for any of the
\* seven services, makes NewServer return nil with that error; a Server is
\* returned only with no error and all seven fields populated.
C4_AllOrNothing ==
    /\ \A n \in ServiceNames :
          err = <<"weaver.Get", n>>
              => (pc = "returned" /\ ret = [server |-> "nil", err |-> err])
    /\ ret.server = "nil" => ret.err # NoErr
    /\ ret.server = "s"
          => (ret.err = NoErr /\ \A n \in ServiceNames : s.services[n] = n)

\* six handles resolved, the seventh (adService) failed
C4_Witness ==
    /\ err = <<"weaver.Get", "adService">>
    /\ \A n \in ServiceNames \ {"adService"} : handles[n] = n
    /\ ret.server = "nil"

\* the shop_session-id cookies a response sets
SessionCookies(resp) ==
    {i \in DOMAIN resp.setCookies : resp.setCookies[i].name = "shop_session-id"}

\* C5: a request without the shop_session-id cookie gets exactly one new
\* shop_session-id cookie with max-age 172800; a request carrying it gets
\* none; in both cases the routed handler sees a session identifier.
C5_SessionCookie ==
    last.seen =>
        /\ last.req.cookie = NoSession =>
              /\ Cardinality(SessionCookies(last.resp)) = 1
              /\ \A i \in SessionCookies(last.resp) :
                    /\ last.resp.setCookies[i].maxAge = 172800
                    /\ last.resp.setCookies[i].value = last.resp.handlerSession
        /\ last.req.cookie # NoSession =>
              /\ SessionCookies(last.resp) = {}
              /\ last.resp.handlerSession = last.req.cookie
        /\ last.resp.handlerSession # NoSession

\* a first-time visitor, after an earlier first-time visitor, reaches a route
C5_Witness ==
    /\ last.seen
    /\ last.req.cookie = NoSession
    /\ last.resp.route # 0
    /\ minted = 2

\* the routes registered for exactly /healthz
HealthzRoutes ==
    {i \in DOMAIN r : r[i].path = <<"healthz">> /\ ~r[i].prefix}

C6_State ==
    /\ r # <<>> =>
          /\ Cardinality(HealthzRoutes) = 1
          /\ \A i \in HealthzRoutes : r[i].label = Uninstrumented
    /\ (last.seen /\ last.req.path = <<"healthz">>) =>
          /\ last.resp.status = 200
          /\ last.resp.body = "ok"
          /\ last.resp.label = Uninstrumented
          /\ \A i \in DOMAIN last.resp.events : last.resp.events[i] # "instrument"

\* C6: the route table has exactly one entry for /healthz, never wrapped by
\* weaver.InstrumentHandler; after any sequence of requests every /healthz
\* request is answered 200 "ok" and counted under no instrumentation label.
C6_Healthz ==
    /\ []C6_State
    /\ [][(last'.seen /\ last'.req.path = <<"healthz">>) => metrics' = metrics]_vars

\* a /healthz request served after an instrumented one
C6_Witness ==
    /\ last.seen
    /\ last.req.path = <<"healthz">>
    /\ last.req.method = "GET"
    /\ \E l \in Labels : metrics[l] > 0

\* the path pattern of the HTTP surface a concrete path falls under
PatternOf(path) ==
    CASE path = <<>> -> "/"
      [] Len(path) = 2 /\ path[1] = "product" /\ path[2] # "" -> "/product/{id}"
      [] path = <<"cart">> -> "/cart"
      [] path = <<"cart", "empty">> -> "/cart/empty"
      [] path = <<"setCurrency">> -> "/setCurrency"
      [] path = <<"logout">> -> "/logout"
      [] path = <<"cart", "checkout">> -> "/cart/checkout"
      [] Len(path) >= 2 /\ path[1] = "static" -> "/static/*"
      [] path = <<"robots.txt">> -> "/robots.txt"
      [] path = <<"healthz">> -> "/healthz"
      [] OTHER -> "(none)"

\* the table of the HTTP surface as the claim states it: methods, path, label
TableAsClaimed ==
    { [methods |-> {"GET", "HEAD"}, path |-> "/",              label |-> "home"],
      [methods |-> {"GET", "HEAD"}, path |-> "/product/{id}",  label |-> "product"],
      [methods |-> {"GET", "HEAD"}, path |-> "/cart",          label |-> "cart_view"],
      [methods |-> {"POST"},        path |-> "/cart",          label |-> "cart_add"],
      [methods |-> {"POST"},        path |-> "/cart/empty",    label |-> "cart_empty"],
      [methods |-> {"POST"},        path |-> "/setCurrency",   label |-> "setcurrency"],
      [methods |-> {"GET"},         path |-> "/logout",        label |-> "logout"],
      [methods |-> {"POST"},        path |-> "/cart/checkout", label |-> "cart_checkout"],
      [methods |-> {"GET"},         path |-> "/static/*",      label |-> "static"],
      [methods |-> {"GET", "HEAD"}, path |-> "/robots.txt",    label |-> "robots"],
      [methods |-> {"GET"},         path |-> "/healthz",       label |-> ""] }

\* the same table with /static/*, /robots.txt and /healthz open to every method
TableAmended ==
    { IF row.path \in {"/static/*", "/robots.txt", "/healthz"}
      THEN [row EXCEPT !.methods = HTTPMethods]
      ELSE row : row \in TableAsClaimed }

RowsFor(table, method, path) ==
    {row \in table : row.path = PatternOf(path) /\ method \in row.methods}

\* the request served last was dispatched as the table says: to a route if
\* and only if the table lists its method for its path, and then under the
\* label of that row
DispatchedBy(table) ==
    last.seen =>
        /\ last.resp.route # 0 <=> RowsFor(table, last.req.method, last.req.path) # {}
        /\ last.resp.route # 0 =>
              \A row \in RowsFor(table, last.req.method, last.req.path) :
                  last.resp.label = row.label

\* every route but /healthz is instrumented, under a label no other route has
DistinctLabels ==
    \A i \in DOMAIN r :
        /\ r[i].label = Uninstrumented <=> r[i].path = <<"healthz">>
        /\ \A j \in DOMAIN r : (i # j /\ r[i].label = r[j].label) => FALSE

\* C7 as stated: a request is dispatched to a route if and only if the table
\* of the HTTP surface lists its method for its path (/robots.txt for GET and
\* HEAD only, /static/* and /healthz for GET only), and every path other
\* than /healthz is instrumented under its own label.
C7_TableAsClaimed ==
    DispatchedBy(TableAsClaimed) /\ DistinctLabels

\* C7 amended: the same, except that /robots.txt, /static/* and /healthz are
\* registered without a method restriction and are dispatched for every
\* HTTP method.
C7_TableAmended ==
    DispatchedBy(TableAmended) /\ DistinctLabels

\* a PUT of /robots.txt reached the robots route
C7_Witness ==
    /\ last.seen
    /\ last.req.method = "PUT"
    /\ last.req.path = <<"robots.txt">>
    /\ last.resp.label = "robots"
    /\ last.resp.status = 200

\* position of the event e in the trace of the request served last
Pos(e) == CHOOSE i \in DOMAIN last.resp.events : last.resp.events[i] = e

Once(e) ==
    Cardinality({i \in DOMAIN last.resp.events : last.resp.events[i] = e}) = 1

\* the event of the router handing the request on: the routed handler, or
\* the 404/405 answer when no route takes it
Routed == IF last.resp.route # 0 THEN "handler" ELSE "unrouted"

\* C8: the composed handler nests router inside session assignment inside
\* logging inside tracing: the span starts first and ends last, logging
\* starts before and records after the session step, the session identifier
\* is assigned before the routed handler runs, and the log record is
\* produced only after the session identifier is there.
C8_Nesting ==
    last.seen =>
        /\ \A e \in {"span_start", "log_start", "session", Routed,
                     "log_record", "span_end"} : Once(e)
        /\ Pos("span_start") = 1
        /\ Pos("span_end") = Len(last.resp.events)
        /\ Pos("span_start") < Pos("log_start")
        /\ Pos("log_start") < Pos("session")
        /\ Pos("session") < Pos(Routed)
        /\ Pos(Routed) < Pos("log_record")
        /\ Pos("session") < Pos("log_record")
        /\ Pos("log_record") < Pos("span_end")
        /\ last.resp.handlerSession # NoSession

\* a first-time visitor's request went through all four layers to a route
C8_Witness ==
    /\ last.seen
    /\ last.req.cookie = NoSession
    /\ last.resp.route # 0
    /\ Len(last.resp.events) >= 6

\* everything NewServer sets up is in place
Constructed ==
    /\ ret = [server |-> "s", err |-> NoErr]
    /\ \A n \in ServiceNames : s.services[n] # "nil"
    /\ s.platform \in {GcpProfile, LocalProfile}
    /\ s.hostname # ""
    /\ r # <<>>
    /\ Len(s.handler) = 4

\* C9: no request is served before construction has completed: Run acquires
\* the listener only after dependency resolution, environment detection and
\* handler composition are done, a request is handled only after the
\* listener was acquired, and when acquisition fails Run returns that error
\* at once and no request is ever served.
C9_ServeAfterConstruction ==
    /\ (lis # "nil" \/ runErr # NoErr \/ pc \in {"serving", "exited"}) => Constructed
    /\ (served > 0 \/ last.seen) => (lis # "nil" /\ pc \in {"serving", "exited"})
    /\ pc = "serving" => (lis # "nil" /\ runErr = NoErr)
    /\ runErr = <<"Listener", "boutique">>
          => (lis = "nil" /\ pc = "exited" /\ served = 0 /\ ~last.seen)

\* a request is being answered over the acquired listener
C9_Witness ==
    /\ last.seen
    /\ served = 1
    /\ lis = "boutique"

====
